---- MODULE Spec2Model ----
(***************************************************************************)
(* Salary estimator: the five-stage LangGraph pipeline of graph.py and the *)
(* node functions it runs (profile_parser, query_generator, web_searcher,  *)
(* knowledge_base, salary_analyzer).                                       *)
(*                                                                         *)
(* Texts are sequences of one-character strings, so that the regular       *)
(* expressions of web_searcher.py are matched character by character.      *)
(***************************************************************************)
EXTENDS Integers, Sequences, FiniteSets, TLC

(***************************************************************************)
(* Characters and the character classes of the patterns.                   *)
(***************************************************************************)
Digit == {"0", "1", "2", "3", "4", "5", "6", "7", "8", "9"}

\* [\d,]
NumCh == Digit \cup {","}

\* \s
Space == {" "}

\* [:\s]
ColonSpace == {":", " "}

DigitVal(c) ==
    CASE c = "0" -> 0 [] c = "1" -> 1 [] c = "2" -> 2 [] c = "3" -> 3
      [] c = "4" -> 4 [] c = "5" -> 5 [] c = "6" -> 6 [] c = "7" -> 7
      [] c = "8" -> 8 [] c = "9" -> 9

\* str.lower() / re.IGNORECASE on the upper-case letters the texts use
Lower(c) ==
    CASE c = "K" -> "k" [] c = "S" -> "s" [] c = "T" -> "t" [] c = "C" -> "c"
      [] c = "P" -> "p" [] c = "Y" -> "y" [] c = "A" -> "a" [] c = "G" -> "g"
      [] c = "L" -> "l" [] c = "I" -> "i" [] c = "W" -> "w" [] c = "E" -> "e"
      [] OTHER -> c

LowerText(t) == [i \in 1..Len(t) |-> Lower(t[i])]

\* the character at position i, or "" past the end of the text
At(t, i) == IF i >= 1 /\ i <= Len(t) THEN t[i] ELSE ""

(***************************************************************************)
(* Matching primitives.  A position is an index into the text; a match     *)
(* attempt returns the position after the match, or 0 when it fails.       *)
(***************************************************************************)
RECURSIVE Run(_, _, _)
\* greedy S*: the position after the longest run of characters of S from i
Run(t, i, S) == IF At(t, i) \in S THEN Run(t, i + 1, S) ELSE i

\* a literal word, compared case-insensitively
Lit(t, i, w) ==
    IF /\ i + Len(w) - 1 <= Len(t)
       /\ \A j \in 1..Len(w) : Lower(t[i + j - 1]) = w[j]
    THEN i + Len(w)
    ELSE 0

\* the first alternative of ws (in order) that matches at i
RECURSIVE LitAny(_, _, _)
LitAny(t, i, ws) ==
    IF ws = <<>> THEN 0
    ELSE IF Lit(t, i, Head(ws)) # 0 THEN Lit(t, i, Head(ws))
    ELSE LitAny(t, i, Tail(ws))

(***************************************************************************)
(* SALARY_PATTERNS (web_searcher.py:15-20), one match operator a pattern.  *)
(***************************************************************************)
W_per == <<"p", "e", "r">>

\* year|yr|annually|/yr
UnitWords ==
    << <<"y", "e", "a", "r">>, <<"y", "r">>,
       <<"a", "n", "n", "u", "a", "l", "l", "y">>, <<"/", "y", "r">> >>

\* salary|compensation|pay|total\s+comp  (the last is matched by TotalComp)
KeyWords ==
    << <<"s", "a", "l", "a", "r", "y">>,
       <<"c", "o", "m", "p", "e", "n", "s", "a", "t", "i", "o", "n">>,
       <<"p", "a", "y">> >>

W_total == <<"t", "o", "t", "a", "l">>

W_comp == <<"c", "o", "m", "p">>

\* \$[\d,]+
DollarNum(t, i) ==
    IF At(t, i) = "$" /\ Run(t, i + 1, NumCh) > i + 1
    THEN Run(t, i + 1, NumCh)
    ELSE 0

\* (?:\s*-\s*\$[\d,]+)? from e: the position after the group, e when it is skipped
RangeTail(t, e) ==
    LET a == Run(t, e, Space)
        b == Run(t, a + 1, Space)
    IN  IF At(t, a) = "-" /\ DollarNum(t, b) # 0 THEN DollarNum(t, b) ELSE e

\* (?:\s*(?:per\s+)?(?:year|yr|annually|/yr))? from e
UnitTail(t, e) ==
    LET a == Run(t, e, Space)
        p == Lit(t, a, W_per)
        b == IF p # 0 /\ Run(t, p, Space) > p THEN Run(t, p, Space) ELSE 0
        withPer == IF b # 0 THEN LitAny(t, b, UnitWords) ELSE 0
        noPer == LitAny(t, a, UnitWords)
    IN  IF withPer # 0 THEN withPer ELSE IF noPer # 0 THEN noPer ELSE e

\* pattern 1: \$[\d,]+(?:\s*-\s*\$[\d,]+)?(?:\s*(?:per\s+)?(?:year|yr|annually|/yr))?
Pattern1(t, i) ==
    IF DollarNum(t, i) = 0 THEN 0 ELSE UnitTail(t, RangeTail(t, DollarNum(t, i)))

\* [\d,]+k
NumK(t, i) ==
    IF Run(t, i, NumCh) > i /\ Lower(At(t, Run(t, i, NumCh))) = "k"
    THEN Run(t, i, NumCh) + 1
    ELSE 0

\* pattern 2: [\d,]+k\s*-\s*[\d,]+k
Pattern2(t, i) ==
    LET e == NumK(t, i)
        a == Run(t, e, Space)
        b == Run(t, a + 1, Space)
    IN  IF e # 0 /\ At(t, a) = "-" THEN NumK(t, b) ELSE 0

\* pattern 3: \$[\d,]+k
Pattern3(t, i) == IF At(t, i) = "$" THEN NumK(t, i + 1) ELSE 0

\* total\s+comp
TotalComp(t, i) ==
    LET a == Lit(t, i, W_total)
    IN  IF a # 0 /\ Run(t, a, Space) > a THEN Lit(t, Run(t, a, Space), W_comp) ELSE 0

\* (?:salary|compensation|pay|total\s+comp)
KeyWord(t, i) == IF LitAny(t, i, KeyWords) # 0 THEN LitAny(t, i, KeyWords) ELSE TotalComp(t, i)

\* pattern 4: (?:salary|compensation|pay|total\s+comp)[:\s]*\$?[\d,]+
Pattern4(t, i) ==
    LET k == KeyWord(t, i)
        a == Run(t, k, ColonSpace)
        b == IF At(t, a) = "$" THEN a + 1 ELSE a
    IN  IF k # 0 /\ Run(t, b, NumCh) > b THEN Run(t, b, NumCh) ELSE 0

NumPatterns == 4

MatchAt(p, t, i) ==
    CASE p = 1 -> Pattern1(t, i)
      [] p = 2 -> Pattern2(t, i)
      [] p = 3 -> Pattern3(t, i)
      [] p = 4 -> Pattern4(t, i)

RECURSIVE FindAll(_, _, _)
\* re.findall(pattern, text, re.IGNORECASE): the non-overlapping matches, leftmost
\* first, scanning from position i; each match is the matched text
FindAll(p, t, i) ==
    IF i > Len(t) THEN <<>>
    ELSE IF MatchAt(p, t, i) # 0
         THEN <<SubSeq(t, i, MatchAt(p, t, i) - 1)>> \o FindAll(p, t, MatchAt(p, t, i))
         ELSE FindAll(p, t, i + 1)

RECURSIVE NumRuns(_, _)
\* re.findall(r'[\d,]+', match): the maximal runs of digits and commas, from i
NumRuns(m, i) ==
    IF i > Len(m) THEN <<>>
    ELSE IF m[i] \in NumCh
         THEN <<SubSeq(m, i, Run(m, i, NumCh) - 1)>> \o NumRuns(m, Run(m, i, NumCh))
         ELSE NumRuns(m, i + 1)

\* num_str.replace(',', '')
RemoveCommas(s) == SelectSeq(s, LAMBDA c : c # ",")

RECURSIVE DigitsValue(_, _)
DigitsValue(s, acc) ==
    IF s = <<>> THEN acc ELSE DigitsValue(Tail(s), 10 * acc + DigitVal(Head(s)))

ValueError == -1

\* int(num_str.replace(',', '')): ValueError on the empty string
ParseInt(s) ==
    IF RemoveCommas(s) = <<>> THEN ValueError ELSE DigitsValue(RemoveCommas(s), 0)

\* 'k' in match.lower()
HasK(m) == \E i \in 1..Len(m) : Lower(m[i]) = "k"

SalaryFloor == 30000

SalaryCeiling == 2000000

KThreshold == 1000

\* the 'k' notation step (web_searcher.py:36-37)
ScaleK(m, num) == IF HasK(m) /\ num < KThreshold THEN num * 1000 ELSE num

\* a filter that forgets the upper end of the band
InBand_NoCeiling(num) == SalaryFloor <= num

\* the plausibility filter (web_searcher.py:39)
InBand(num) == SalaryFloor <= num /\ num <= SalaryCeiling

\* the figures one match contributes
MatchFigures(m) ==
    { ScaleK(m, ParseInt(NumRuns(m, 1)[j])) :
        j \in { j \in 1..Len(NumRuns(m, 1)) :
                  /\ ParseInt(NumRuns(m, 1)[j]) # ValueError
                  /\ InBand(ScaleK(m, ParseInt(NumRuns(m, 1)[j]))) } }

\* _extract_salary_mentions: list(set(salaries)), kept as the set
ExtractSalaryMentions(t) ==
    UNION { UNION { MatchFigures(FindAll(p, t, 1)[j]) : j \in 1..Len(FindAll(p, t, 1)) } :
              p \in 1..NumPatterns }

(***************************************************************************)
(* urlparse(link).netloc and _calculate_relevance (web_searcher.py:47-74). *)
(***************************************************************************)
Letter ==
    {"a", "b", "c", "d", "e", "f", "g", "h", "i", "j", "k", "l", "m", "n", "o", "p",
     "q", "r", "s", "t", "u", "v", "w", "x", "y", "z"}

\* urllib's scheme_chars
SchemeCh == Letter \cup Digit \cup {"+", "-", "."}

\* url.find(':') as a 1-based position, 0 when there is none
RECURSIVE FindCh(_, _, _)
FindCh(t, i, S) ==
    IF i > Len(t) THEN 0 ELSE IF t[i] \in S THEN i ELSE FindCh(t, i + 1, S)

\* the position of the ':' ending a scheme, 0 when the url has no scheme
SchemeEnd(url) ==
    LET c == FindCh(url, 1, {":"})
    IN  IF /\ c > 1
           /\ Lower(url[1]) \in Letter
           /\ \A j \in 1..(c - 1) : Lower(url[j]) \in SchemeCh
        THEN c
        ELSE 0

\* urlparse(url).netloc: after the scheme, "//" opens the netloc, which runs to the
\* first of "/", "?", "#"
NetLoc(url) ==
    LET rest == SubSeq(url, SchemeEnd(url) + 1, Len(url))
        d == FindCh(rest, 3, {"/", "?", "#"})
    IN  IF Len(rest) >= 2 /\ rest[1] = "/" /\ rest[2] = "/"
        THEN SubSeq(rest, 3, IF d = 0 THEN Len(rest) ELSE d - 1)
        ELSE <<>>

\* w in t (both already lower-case)
Contains(t, w) == \E i \in 1..(Len(t) - Len(w) + 1) : SubSeq(t, i, i + Len(w) - 1) = w

TrustedDomains ==
    { <<"l", "e", "v", "e", "l", "s", ".", "f", "y", "i">>,
      <<"g", "l", "a", "s", "s", "d", "o", "o", "r">>,
      <<"i", "n", "d", "e", "e", "d">>,
      <<"p", "a", "y", "s", "c", "a", "l", "e">>,
      <<"l", "i", "n", "k", "e", "d", "i", "n">> }

SalaryKeywords ==
    { <<"s", "a", "l", "a", "r", "y">>,
      <<"c", "o", "m", "p", "e", "n", "s", "a", "t", "i", "o", "n">>,
      <<"p", "a", "y">>,
      <<"w", "a", "g", "e">>,
      <<"e", "a", "r", "n", "i", "n", "g">>,
      <<"t", "o", "t", "a", "l", " ", "c", "o", "m", "p">> }

RecentYears == { <<"2", "0", "2", "4">>, <<"2", "0", "2", "5">> }

\* Python float addition on the scores that occur, in thousandths; the two sums that
\* IEEE doubles round off the decimal value (0.65 + 0.05 = 0.7000000000000001 and
\* 0.7 + 0.1 = 0.7999999999999999) are one unit off, and 0.7999999999999999 + 0.05
\* is 0.85 again
FloatAdd(a, b) ==
    CASE a = 650 /\ b = 50 -> 701
      [] a = 700 /\ b = 100 -> 799
      [] a = 799 /\ b = 50 -> 850
      [] OTHER -> a + b

BaseScore == 500

MaxScore == 1000

IsTrusted(link) == \E d \in TrustedDomains : Contains(NetLoc(LowerText(link)), d)

HasSalaryKeyword(title, snippet) ==
    \E kw \in SalaryKeywords :
        Contains(LowerText(title), kw) \/ Contains(LowerText(snippet), kw)

HasRecentYear(snippet) == \E y \in RecentYears : Contains(LowerText(snippet), y)

\* re.search(r'\$[\d,]+', snippet)
HasCurrencyAmount(snippet) == \E i \in 1..Len(snippet) : DollarNum(snippet, i) # 0

\* a score whose keyword boost looks at the snippet alone
CalculateRelevance_SnippetKeyword(title, snippet, link) ==
    LET s1 == IF IsTrusted(link) THEN FloatAdd(BaseScore, 200) ELSE BaseScore
        s2 == IF HasSalaryKeyword(<<>>, snippet) THEN FloatAdd(s1, 150) ELSE s1
        s3 == IF HasRecentYear(snippet) THEN FloatAdd(s2, 100) ELSE s2
        s4 == IF HasCurrencyAmount(snippet) THEN FloatAdd(s3, 50) ELSE s3
    IN  IF s4 < MaxScore THEN s4 ELSE MaxScore

\* _calculate_relevance(result, query); the query is not read
CalculateRelevance(title, snippet, link) ==
    LET s1 == IF IsTrusted(link) THEN FloatAdd(BaseScore, 200) ELSE BaseScore
        s2 == IF HasSalaryKeyword(title, snippet) THEN FloatAdd(s1, 150) ELSE s1
        s3 == IF HasRecentYear(snippet) THEN FloatAdd(s2, 100) ELSE s2
        s4 == IF HasCurrencyAmount(snippet) THEN FloatAdd(s3, 50) ELSE s3
    IN  IF s4 < MaxScore THEN s4 ELSE MaxScore

\* the body of the loop over items (web_searcher.py:116-138): the SearchResult of one
\* raw item {title, snippet, link} found for a query
MakeResult(query, it) ==
    [ query |-> query,
      source |-> NetLoc(it.link),
      title |-> it.title,
      snippet |-> it.snippet,
      salary_mentions |-> ExtractSalaryMentions(it.title \o <<" ">> \o it.snippet),
      relevance_score |-> CalculateRelevance(it.title, it.snippet, it.link) ]

(***************************************************************************)
(* State.                                                                  *)
(***************************************************************************)
VARIABLES
    state,       \* the pipeline state (SalaryEstimationState): field -> value or Absent
    task,        \* node -> "idle" | "running" | "done" | "failed"
    updates,     \* node -> what the node returned: NoReturn, Raised or its update
    active,      \* the nodes of the executor's current superstep
    run,         \* graph.invoke: "idle" | "running" | "done" | "failed"
    result,      \* what estimate_salary returned to its caller
    sw,          \* search_web's locals while it runs
    collection,  \* knowledge_base._collection: "None" or "open"
    index,       \* the records the similarity index stores, in insertion order
    seed,        \* the records of the seed data file, Absent when the file is missing
    calls,       \* calls made to the collaborators, by kind
    kb_results,  \* lookup's results["metadatas"][0]: what the index returned last
    item,        \* a raw search item {title, snippet, link}
    hit,         \* the SearchResult built from item
    callers      \* the threads inside the knowledge base functions: where each is

vars ==
    <<state, task, updates, active, run, result, sw, collection, index, seed, calls,
      kb_results, item, hit, callers>>

\* An optional value is a sequence: empty when absent (a missing key, None), and the
\* value alone when present.
Absent == <<>>

Some(v) == <<v>>

Val(o) == o[1]

(***************************************************************************)
(* Raw search items: texts written around amounts.                         *)
(***************************************************************************)
DigitCh(d) ==
    CASE d = 0 -> "0" [] d = 1 -> "1" [] d = 2 -> "2" [] d = 3 -> "3" [] d = 4 -> "4"
      [] d = 5 -> "5" [] d = 6 -> "6" [] d = 7 -> "7" [] d = 8 -> "8" [] d = 9 -> "9"

RECURSIVE Render(_)
\* the decimal digits of n
Render(n) == IF n < 10 THEN <<DigitCh(n)>> ELSE Render(n \div 10) \o <<DigitCh(n % 10)>>

RECURSIVE RenderCommas(_)
\* the decimal digits of n with thousands separators
RenderCommas(n) ==
    IF n < 1000 THEN Render(n)
    ELSE RenderCommas(n \div 1000)
           \o <<",", DigitCh((n % 1000) \div 100), DigitCh((n % 100) \div 10), DigitCh(n % 10)>>

Amounts ==
    {29, 30, 45, 150, 999, 1000, 1500, 2000, 2001, 29999, 30000, 150000, 2000000, 2000001}

AmountPairs ==
    { <<150, 200>>, <<180000, 220000>>, <<29999, 30000>>, <<2000000, 2000001>>,
      <<999, 1000>>, <<150000, 150000>> }

Renderings(n) == {Render(n), RenderCommas(n)}

T_salary == <<"s", "a", "l", "a", "r", "y">>

T_Salary == <<"S", "a", "l", "a", "r", "y">>

T_totalcomp == <<"T", "o", "t", "a", "l", " ", "c", "o", "m", "p">>

T_peryear == <<" ", "p", "e", "r", " ", "y", "e", "a", "r">>

T_year2024 == <<",", " ", "2", "0", "2", "4">>

\* the ways a text writes one figure whose digits are d: with a currency sign or after
\* a label
InContext(c, d) ==
    CASE c = "dollar" -> <<"$">> \o d
      [] c = "label" -> T_salary \o <<" ">> \o d
      [] c = "label-colon-dollar" -> T_salary \o <<":", " ", "$">> \o d
      [] c = "bare" -> d

Contexts == {"dollar", "label", "label-colon-dollar", "bare"}

\* the contexts of the extraction patterns: a currency amount, a labelled figure
FigureContexts == {"dollar", "label", "label-colon-dollar"}

KSuffixes == {<<>>, <<"k">>, <<"K">>}

OneFigureSnippets ==
    { InContext(c, d \o k) : c \in Contexts, d \in UNION {Renderings(a) : a \in Amounts},
                             k \in KSuffixes }
      \cup { <<"$">> \o d \o T_peryear : d \in UNION {Renderings(a) : a \in Amounts} }
      \cup { <<"$", ",">>, <<",", "k", "-", ",", "k">> }

RangeSnippets(d, e) ==
    { d \o <<"k", "-">> \o e \o <<"k">>,
      d \o <<"k", " ", "-", " ">> \o e \o <<"k">>,
      <<"$">> \o d \o <<"k", "-", "$">> \o e \o <<"k">>,
      <<"$">> \o d \o <<" ", "-", " ", "$">> \o e \o T_peryear,
      T_totalcomp \o <<" ", "$">> \o d \o <<" ", "-", " ", "$">> \o e \o T_peryear \o T_year2024 }

TwoFigureSnippets ==
    UNION { RangeSnippets(d, e) :
              <<d, e>> \in UNION { {<<Render(p[1]), Render(p[2])>>,
                                    <<RenderCommas(p[1]), RenderCommas(p[2])>>} :
                                   p \in AmountPairs } }

ExampleSnippet == <<"T", "o", "t", "a", "l", " ", "c", "o", "m", "p", " ", "$", "1", "8", "0", ",", "0", "0", "0", " ", "-", " ", "$", "2", "2", "0", ",", "0", "0", "0", " ", "p", "e", "r", " ", "y", "e", "a", "r", ",", " ", "2", "0", "2", "4">>

\* snippets that name a year, with and without a figure
YearSnippets ==
    { <<"2", "0", "2", "4">>, <<"2", "0", "2", "5">>, <<"2", "0", "2", "3">>, <<"2", "0", "2", "6">>,
      <<"i", "n", " ", "2", "0", "2", "5", ":", " ", "$", "1", "5", "0", ",", "0", "0", "0">> }

Snippets == OneFigureSnippets \cup TwoFigureSnippets \cup YearSnippets \cup {ExampleSnippet}

Titles == {<<>>, T_Salary}

L_glassdoor == <<"h", "t", "t", "p", "s", ":", "/", "/", "w", "w", "w", ".", "g", "l", "a", "s", "s", "d", "o", "o", "r", ".", "c", "o", "m", "/", "s">>

L_levels == <<"h", "t", "t", "p", "s", ":", "/", "/", "l", "e", "v", "e", "l", "s", ".", "f", "y", "i", "/", "a">>

L_blog == <<"h", "t", "t", "p", ":", "/", "/", "b", "l", "o", "g", ".", "i", "o", "/", "p", "?", "x">>

L_noscheme == <<"b", "l", "o", "g", ".", "i", "o", "/", "p">>

Links == {L_glassdoor, L_levels, L_blog, L_noscheme}

Items == [title : Titles, snippet : Snippets, link : Links]

(***************************************************************************)
(* The pipeline state and its records.                                     *)
(***************************************************************************)
Fields ==
    {"raw_profile", "profile", "search_queries", "search_results", "kb_matches",
     "salary_estimate", "confidence_score", "reasoning", "sources", "adjustments",
     "final_response"}

\* a state dict, or a node's update, with no key
EmptyState == [f \in Fields |-> Absent]

\* state.get(f, default)
Get(st, f, default) == IF st[f] = Absent THEN default ELSE Val(st[f])

Nodes == {"parse_profile", "generate_queries", "search_web", "lookup_kb", "analyze_salary"}

\* what a node call came to: nothing yet, an update returned, an exception raised
NoReturn == [kind |-> "none", upd |-> EmptyState]

Returned(upd) == [kind |-> "return", upd |-> upd]

Raised == [kind |-> "raise", upd |-> EmptyState]

CallKinds == {"llm", "open", "count", "add", "query", "search", "init"}

NoCalls == [k \in CallKinds |-> 0]

\* ProfileData (models/profile.py), years_of_experience in whole years
ProfileOf(yoe) ==
    [ title |-> "Senior Software Engineer", company |-> "Google", company_tier |-> "faang",
      years_of_experience |-> yoe, location |-> "San Francisco, CA",
      skills |-> <<"Python", "Go">>, education |-> "", industry |-> "Technology",
      seniority_level |-> "senior" ]

Yoes == {2, 3, 12, 13}

Profiles == {ProfileOf(y) : y \in Yoes}

(***************************************************************************)
(* The knowledge base (knowledge_base.py).  A stored record is the         *)
(* metadata dict of a seed benchmark; a key may be missing from it.        *)
(***************************************************************************)
Metadata(role, lo, hi, smin, smed, smax) ==
    [ role |-> role, location |-> "San Francisco, CA",
      years_of_experience_min |-> lo, years_of_experience_max |-> hi,
      salary_min |-> smin, salary_median |-> smed, salary_max |-> smax ]

M_junior == Metadata("Software Engineer", Some(0), Some(2), Some(120000), Some(150000), Some(180000))

M_senior == Metadata("Senior Software Engineer", Some(5), Some(10), Some(280000), Some(340000), Some(400000))

\* no experience range stored
M_open == Metadata("Engineer", Absent, Absent, Some(100000), Some(200000), Some(300000))

\* a required Benchmark field is missing
M_broken == Metadata("Staff Engineer", Some(5), Some(10), Some(300000), Absent, Some(500000))

SeedRecords == {M_junior, M_senior, M_open, M_broken}

MaxSeed == 6

MaxInitCalls == 1

RECURSIVE SeqsUpTo(_, _)
\* the sequences over S of length at most n
SeqsUpTo(S, n) ==
    IF n = 0 THEN {<<>>}
    ELSE SeqsUpTo(S, n - 1) \cup {Append(q, x) : q \in {q \in SeqsUpTo(S, n - 1) : Len(q) = n - 1}, x \in S}

\* the answers and contents of the index that are explored
StoredLists == SeqsUpTo(SeedRecords, MaxSeed)

MaxSeedFile == 2

\* the seed data files that are explored
SeedFiles == SeqsUpTo(SeedRecords, MaxSeedFile)

\* SalaryBenchmark's field defaults (models/estimation.py:21-22)
DefaultYoeMin == 0

DefaultYoeMax == 30

\* metadata.get("years_of_experience_min", 0)
YoeMin(m) == IF m.years_of_experience_min = Absent THEN DefaultYoeMin ELSE Val(m.years_of_experience_min)

\* metadata.get("years_of_experience_max", 30)
YoeMax(m) == IF m.years_of_experience_max = Absent THEN DefaultYoeMax ELSE Val(m.years_of_experience_max)

YoeSlack == 2

\* an experience filter with a strict upper end
PassesExperience_Strict(yoe, m) == YoeMin(m) - YoeSlack <= yoe /\ yoe < YoeMax(m) + YoeSlack

\* the experience filter (knowledge_base.py:126)
PassesExperience(yoe, m) == YoeMin(m) - YoeSlack <= yoe /\ yoe <= YoeMax(m) + YoeSlack

\* SalaryBenchmark(**metadata) validates: the fields without a default are required
Validates(m) == m.salary_min # Absent /\ m.salary_median # Absent /\ m.salary_max # Absent

\* the SalaryBenchmark built from a metadata dict that validates
Benchmark(m) ==
    [ role |-> m.role, location |-> m.location, company_tier |-> "unknown",
      years_of_experience_min |-> YoeMin(m), years_of_experience_max |-> YoeMax(m),
      salary_min |-> Val(m.salary_min), salary_max |-> Val(m.salary_max),
      salary_median |-> Val(m.salary_median),
      currency |-> "USD", source |-> "internal_kb", year |-> 2024 ]

NResults == 10

KbLimit == 5

Reverse(q) == [i \in 1..Len(q) |-> q[Len(q) + 1 - i]]

\* the rankings the similarity index may give its records for a query: the ranking
\* is the index's own; the insertion order and its reverse are explored
Rankings(idx) == {idx, Reverse(idx)}

\* collection.query(..., n_results=10)["metadatas"][0] for a ranking
QueryResult(ranked) == SubSeq(ranked, 1, IF Len(ranked) < NResults THEN Len(ranked) ELSE NResults)

\* the records the loop appends before it ends or SalaryBenchmark raises
Surviving(yoe, metas) == SelectSeq(metas, LAMBDA m : PassesExperience(yoe, m))

\* a truncation that keeps the last records
Truncate_Last(q) == SubSeq(q, Len(q) - (IF Len(q) < KbLimit THEN Len(q) ELSE KbLimit) + 1, Len(q))

\* kb_matches[:5]
Truncate(q) == SubSeq(q, 1, IF Len(q) < KbLimit THEN Len(q) ELSE KbLimit)

\* the loop of knowledge_base.py:119-127 and the truncation: the update returned, or
\* the exception of the first surviving record that does not validate
FilterMatches(yoe, metas) ==
    IF \E i \in 1..Len(Surviving(yoe, metas)) : ~Validates(Surviving(yoe, metas)[i])
    THEN Raised
    ELSE Returned([EmptyState EXCEPT !.kb_matches =
             Some(Truncate([i \in 1..Len(Surviving(yoe, metas)) |->
                               Benchmark(Surviving(yoe, metas)[i])]))])

\* the module globals and the store, threaded through the functions below; raised
\* is set when the function raised
KbNow == [collection |-> collection, index |-> index, calls |-> calls, raised |-> FALSE]

\* _get_collection: the client and collection are opened when the global is None
GetCollection(kb) ==
    IF kb.collection # "None" THEN kb
    ELSE [kb EXCEPT !.collection = "open", !.calls.open = @ + 1]

\* collection.count(), n times
Counted(kb, n) == [kb EXCEPT !.calls.count = @ + n]

\* the document text of a seed record reads these keys (knowledge_base.py:76-80)
HasDocKeys(m) == m.years_of_experience_min # Absent /\ m.years_of_experience_max # Absent

\* an init_knowledge_base that loads the seed file whatever the store holds
InitKnowledgeBase_NoCountCheck(kb, seedFile) ==
    LET k == GetCollection(kb)
    IN  IF seedFile = Absent THEN Counted(k, 1)
        ELSE IF \E i \in 1..Len(Val(seedFile)) : ~HasDocKeys(Val(seedFile)[i])
             THEN [Counted(k, 1) EXCEPT !.raised = TRUE]
        ELSE [Counted(k, 1) EXCEPT !.index = @ \o Val(seedFile), !.calls.add = @ + 1]

\* init_knowledge_base() with the default seed path
InitKnowledgeBase(kb, seedFile) ==
    LET k == GetCollection(kb)
    IN  IF Len(k.index) > 0 THEN Counted(k, 2)
        ELSE IF seedFile = Absent THEN Counted(k, 1)
        ELSE IF \E i \in 1..Len(Val(seedFile)) : ~HasDocKeys(Val(seedFile)[i])
             THEN [Counted(k, 1) EXCEPT !.raised = TRUE]
        ELSE [Counted(k, 1) EXCEPT !.index = Val(seedFile), !.calls.add = @ + 1]

\* lookup_knowledge_base up to the query (knowledge_base.py:100-104)
EnsureInitialized(kb, seedFile) ==
    LET k == Counted(GetCollection(kb), 1)
    IN  IF Len(k.index) = 0 THEN InitKnowledgeBase(k, seedFile) ELSE k

\* a lookup that opens the collection before it looks at the profile
LookupEffects_OpenFirst(st, seedFile) ==
    IF st.profile = Absent THEN GetCollection(KbNow) ELSE EnsureInitialized(KbNow, seedFile)

\* the store and globals after lookup_knowledge_base(st), the query not counted
LookupEffects(st, seedFile) ==
    IF st.profile = Absent THEN KbNow ELSE EnsureInitialized(KbNow, seedFile)

\* a node call ends: its task is done with the update it returned, or failed
Finish(n, outcome) ==
    /\ task' = [task EXCEPT ![n] = IF outcome.kind = "raise" THEN "failed" ELSE "done"]
    /\ updates' = [updates EXCEPT ![n] = outcome]

\* lookup_knowledge_base(state)
LookupKnowledgeBase ==
    /\ task["lookup_kb"] = "running"
    /\ LET kb == LookupEffects(state, seed)
       IN  /\ collection' = kb.collection
           /\ index' = kb.index
           /\ IF state.profile = Absent
              THEN /\ Finish("lookup_kb", Returned([EmptyState EXCEPT !.kb_matches = Some(<<>>)]))
                   /\ calls' = kb.calls
                   /\ UNCHANGED kb_results
              ELSE IF kb.raised
              THEN /\ Finish("lookup_kb", Raised)
                   /\ calls' = kb.calls
                   /\ UNCHANGED kb_results
              ELSE \E ranked \in Rankings(kb.index) :
                   /\ Finish("lookup_kb",
                             FilterMatches(Val(state.profile).years_of_experience, QueryResult(ranked)))
                   /\ kb_results' = QueryResult(ranked)
                   /\ calls' = [kb.calls EXCEPT !.query = @ + 1]
    /\ UNCHANGED <<state, active, run, result, sw, seed, item, hit, callers>>

\* a caller invokes init_knowledge_base() (main.py:121, app.py:18)
CallInitKnowledgeBase ==
    /\ calls.init < MaxInitCalls
    /\ run # "running"
    /\ \A n \in Nodes : task[n] # "running"
    /\ LET kb == InitKnowledgeBase(KbNow, seed)
       IN  /\ collection' = kb.collection
           /\ index' = kb.index
           /\ calls' = [kb.calls EXCEPT !.init = @ + 1]
    /\ UNCHANGED <<state, task, updates, active, run, result, sw, seed, kb_results, item, hit, callers>>

\* a caller invokes node n on the state, as the tests do
CallNode(n) ==
    /\ \A m \in Nodes : task[m] = "idle"
    /\ task' = [task EXCEPT ![n] = "running"]
    /\ UNCHANGED <<state, updates, active, run, result, sw, collection, index, seed, calls,
                   kb_results, item, hit, callers>>

\* the locals of search_web before a call of it
SwIdle == [pc |-> "idle", queries |-> <<>>, qi |-> 0, all_results |-> <<>>, log |-> <<>>]

\* what stays as it is in a specification of node calls
NodeIdle ==
    /\ task = [n \in Nodes |-> "idle"]
    /\ updates = [n \in Nodes |-> NoReturn]
    /\ active = {}
    /\ run = "idle"
    /\ result = Absent
    /\ sw = SwIdle
    /\ calls = NoCalls
    /\ kb_results = <<>>
    /\ item = <<>>
    /\ hit = Absent
    /\ callers = <<>>

\* the store before a call: empty with a seed file or none to populate it from, or
\* holding records from an earlier process
InitKB ==
    /\ NodeIdle
    /\ state \in {[EmptyState EXCEPT !.profile = p] : p \in {Absent} \cup {Some(q) : q \in Profiles}}
    /\ collection = "None"
    /\ \/ /\ index = <<>>
          /\ seed \in {Absent} \cup {Some(f) : f \in SeedFiles \ {<<>>}}
       \/ /\ index \in StoredLists \ {<<>>}
          /\ seed = Absent

NextKB == CallNode("lookup_kb") \/ LookupKnowledgeBase \/ CallInitKnowledgeBase

SpecKB == InitKB /\ [][NextKB]_vars

(***************************************************************************)
(* The knowledge base functions step by step, for callers that run them    *)
(* at the same time (the sessions of app.py share one process).  Nothing   *)
(* in knowledge_base.py locks: a step is one read or one call of the       *)
(* store.                                                                  *)
(***************************************************************************)
NumCallers == 2

Callers == 1..NumCallers

\* a caller: the function it called, the function it is in, the line it is at
CallerAt(op, frame, pc) == [op |-> op, frame |-> frame, pc |-> pc]

\* where a caller goes when init_knowledge_base returns
AfterInit(c) ==
    IF callers[c].op = "lookup" THEN CallerAt("lookup", "lookup", "query")
    ELSE CallerAt("init", "init", "end")

OnlyKb == <<state, task, updates, active, run, result, sw, seed, kb_results, item, hit>>

\* _get_collection: the test of the global (knowledge_base.py:22-23)
CallerGet(c) ==
    /\ callers[c].pc = "get"
    /\ callers' = [callers EXCEPT ![c].pc = IF collection # "None" THEN "count" ELSE "open"]
    /\ UNCHANGED <<collection, index, calls>>
    /\ UNCHANGED OnlyKb

\* _get_collection: the client and the collection are made and the global is set
\* (knowledge_base.py:25-37)
CallerOpen(c) ==
    /\ callers[c].pc = "open"
    /\ collection' = "open"
    /\ calls' = [calls EXCEPT !.open = @ + 1]
    /\ callers' = [callers EXCEPT ![c].pc = "count"]
    /\ UNCHANGED index
    /\ UNCHANGED OnlyKb

\* collection.count() and the branch on it: in lookup_knowledge_base
\* (knowledge_base.py:103-104), in init_knowledge_base (knowledge_base.py:55-56)
CallerCount(c) ==
    /\ callers[c].pc = "count"
    /\ IF callers[c].frame = "lookup"
       THEN /\ calls' = [calls EXCEPT !.count = @ + 1]
            /\ callers' = [callers EXCEPT ![c] =
                              IF Len(index) = 0 THEN CallerAt("lookup", "init", "get")
                              ELSE CallerAt("lookup", "lookup", "query")]
       ELSE IF Len(index) > 0
       THEN /\ calls' = [calls EXCEPT !.count = @ + 2]
            /\ callers' = [callers EXCEPT ![c] = AfterInit(c)]
       ELSE /\ calls' = [calls EXCEPT !.count = @ + 1]
            /\ callers' = [callers EXCEPT ![c].pc = "load"]
    /\ UNCHANGED <<collection, index>>
    /\ UNCHANGED OnlyKb

\* init_knowledge_base: the seed file is read and the documents are built
\* (knowledge_base.py:58-83)
CallerLoad(c) ==
    /\ callers[c].pc = "load"
    /\ callers' = [callers EXCEPT ![c] =
                      IF seed = Absent THEN AfterInit(c)
                      ELSE IF \E i \in 1..Len(Val(seed)) : ~HasDocKeys(Val(seed)[i])
                           THEN CallerAt(callers[c].op, "init", "raised")
                           ELSE CallerAt(callers[c].op, "init", "add")]
    /\ UNCHANGED <<collection, index, calls>>
    /\ UNCHANGED OnlyKb

\* init_knowledge_base: collection.add (knowledge_base.py:85); records whose ids the
\* store has already are not stored again, and the call returns or raises, as the
\* version of the store has it
CallerAdd(c) ==
    /\ callers[c].pc = "add"
    /\ calls' = [calls EXCEPT !.add = @ + 1]
    /\ IF index = <<>>
       THEN /\ index' = Val(seed)
            /\ callers' = [callers EXCEPT ![c] = AfterInit(c)]
       ELSE /\ UNCHANGED index
            /\ \/ callers' = [callers EXCEPT ![c] = AfterInit(c)]
               \/ callers' = [callers EXCEPT ![c].pc = "raised"]
    /\ UNCHANGED collection
    /\ UNCHANGED OnlyKb

\* lookup_knowledge_base: collection.query (knowledge_base.py:110-114)
CallerQuery(c) ==
    /\ callers[c].pc = "query"
    /\ calls' = [calls EXCEPT !.query = @ + 1]
    /\ callers' = [callers EXCEPT ![c].pc = "end"]
    /\ UNCHANGED <<collection, index>>
    /\ UNCHANGED OnlyKb

\* a fresh process, an empty store: every caller is about to call
\* init_knowledge_base() or lookup_knowledge_base on a state with a profile
InitRace ==
    /\ state = [EmptyState EXCEPT !.profile = Some(ProfileOf(3))]
    /\ task = [n \in Nodes |-> "idle"]
    /\ updates = [n \in Nodes |-> NoReturn]
    /\ active = {}
    /\ run = "idle"
    /\ result = Absent
    /\ sw = SwIdle
    /\ calls = NoCalls
    /\ kb_results = <<>>
    /\ item = <<>>
    /\ hit = Absent
    /\ collection = "None"
    /\ index = <<>>
    /\ seed \in {Absent} \cup {Some(f) : f \in SeedFiles \ {<<>>}}
    /\ callers \in [Callers -> {CallerAt("init", "init", "get"), CallerAt("lookup", "lookup", "get")}]

NextRace ==
    \E c \in Callers :
        \/ CallerGet(c)
        \/ CallerOpen(c)
        \/ CallerCount(c)
        \/ CallerLoad(c)
        \/ CallerAdd(c)
        \/ CallerQuery(c)

SpecRace == InitRace /\ [][NextRace]_vars


(***************************************************************************)
(* search_web (web_searcher.py:77-160).                                    *)
(***************************************************************************)
\* the raw items the search provider answers with
ItemG(i) ==
    [ title |-> T_Salary,
      snippet |-> <<"$", "1", "0">> \o Render(i) \o <<"k">>,
      link |-> <<"h", "t", "t", "p", "s", ":", "/", "/", "w", "w", "w", ".", "g", "l", "a", "s", "s", "d", "o", "o", "r", ".", "c", "o", "m", "/", "s">> \o Render(i) ]

ItemD(i) ==
    [ title |-> <<>>,
      snippet |-> CASE i % 3 = 0 -> <<"p", "a", "y", " ", "$", "1", "5", "0", ",", "0", "0", "0">>
                    [] i % 3 = 1 -> <<"2", "0", "2", "4">>
                    [] OTHER -> <<"x">>,
      link |-> <<"h", "t", "t", "p", "s", ":", "/", "/", "d">> \o Render(i) \o <<".", "i", "o", "/", "p">> ]

ItemL ==
    [ title |-> T_totalcomp,
      snippet |-> <<"$", "1", "8", "0", ",", "0", "0", "0", " ", "-", " ", "$", "2", "2", "0", ",", "0", "0", "0", " ", "p", "e", "r", " ", "y", "e", "a", "r", ",", " ", "2", "0", "2", "4">>,
      link |-> <<"h", "t", "t", "p", "s", ":", "/", "/", "l", "e", "v", "e", "l", "s", ".", "f", "y", "i", "/", "t">> ]

\* max_search_results_per_query (utils/config.py:34), the num of each request
MaxResultsPerQuery == 5

\* the result pages of the provider that are explored, each of at most num items
Pages ==
    { [i \in 1..MaxResultsPerQuery |-> ItemG(i)],
      [i \in 1..MaxResultsPerQuery |-> ItemD(i)],
      [i \in 1..MaxResultsPerQuery |-> ItemD(MaxResultsPerQuery + i)],
      [i \in 1..MaxResultsPerQuery |-> ItemD(2 * MaxResultsPerQuery + i)],
      <<ItemG(1), ItemD(1), ItemG(2), ItemD(2), ItemL>>,
      <<ItemL>>,
      <<>> }

\* what a request to the provider comes to: Absent when it raises, else its items
Responses == {Absent} \cup {Some(pg) : pg \in Pages}

RECURSIVE InsertByRelevance_BeforeEqual(_, _)
\* x put before the first element whose score is not higher
InsertByRelevance_BeforeEqual(sorted, x) ==
    IF sorted = <<>> THEN <<x>>
    ELSE IF Head(sorted).relevance_score > x.relevance_score
         THEN <<Head(sorted)>> \o InsertByRelevance_BeforeEqual(Tail(sorted), x)
         ELSE <<x>> \o sorted

RECURSIVE InsertByRelevance(_, _)
\* x put behind the last element whose score is not lower
InsertByRelevance(sorted, x) ==
    IF sorted = <<>> THEN <<x>>
    ELSE IF Head(sorted).relevance_score >= x.relevance_score
         THEN <<Head(sorted)>> \o InsertByRelevance(Tail(sorted), x)
         ELSE <<x>> \o sorted

RECURSIVE SortByRelevance(_)
\* all_results.sort(key=lambda x: x.relevance_score, reverse=True): stable
SortByRelevance(q) ==
    IF q = <<>> THEN <<>>
    ELSE InsertByRelevance(SortByRelevance(SubSeq(q, 1, Len(q) - 1)), q[Len(q)])

MaxTotalResults == 15

DiversityThreshold == 5

\* a selection that takes a result only when both tests pass
Keeps_BothTests(filtered, r) ==
    (\A j \in 1..Len(filtered) : filtered[j].source # r.source)
      /\ Len(filtered) < DiversityThreshold

\* a selection that still takes a repeated source as its sixth entry
Keeps_OffByOne(filtered, r) ==
    (\A j \in 1..Len(filtered) : filtered[j].source # r.source)
      \/ Len(filtered) <= DiversityThreshold

\* result.source not in seen_sources or len(filtered_results) < 5
Keeps(filtered, r) ==
    (\A j \in 1..Len(filtered) : filtered[j].source # r.source)
      \/ Len(filtered) < DiversityThreshold

RECURSIVE SelectDiverse(_, _)
\* the selection loop (web_searcher.py:151-158) over the results still to visit;
\* seen_sources is the set of the sources of filtered
SelectDiverse(rest, filtered) ==
    IF rest = <<>> \/ Len(filtered) >= MaxTotalResults THEN filtered
    ELSE IF Keeps(filtered, Head(rest))
         THEN SelectDiverse(Tail(rest), Append(filtered, Head(rest)))
         ELSE SelectDiverse(Tail(rest), filtered)

\* a search_web that reads state["search_queries"] and raises when the key is missing
SearchWebBegin_KeyError ==
    /\ task["search_web"] = "running"
    /\ sw.pc = "idle"
    /\ IF state.search_queries = Absent
       THEN /\ Finish("search_web", Raised)
            /\ UNCHANGED sw
       ELSE IF Val(state.search_queries) = <<>>
       THEN /\ Finish("search_web", Returned([EmptyState EXCEPT !.search_results = Some(<<>>)]))
            /\ UNCHANGED sw
       ELSE \/ /\ Finish("search_web", Returned([EmptyState EXCEPT !.search_results = Some(<<>>)]))
               /\ UNCHANGED sw
            \/ /\ sw' = [pc |-> "loop", queries |-> Val(state.search_queries), qi |-> 1,
                         all_results |-> <<>>, log |-> <<>>]
               /\ UNCHANGED <<task, updates>>
    /\ UNCHANGED <<state, active, run, result, collection, index, seed, calls, kb_results,
                   item, hit, callers>>

\* search_web up to the loop over the queries: the early return on no query, the
\* build of the search service, which may raise
SearchWebBegin ==
    /\ task["search_web"] = "running"
    /\ sw.pc = "idle"
    /\ IF Get(state, "search_queries", <<>>) = <<>>
       THEN /\ Finish("search_web", Returned([EmptyState EXCEPT !.search_results = Some(<<>>)]))
            /\ UNCHANGED sw
       ELSE \/ /\ Finish("search_web", Returned([EmptyState EXCEPT !.search_results = Some(<<>>)]))
               /\ UNCHANGED sw
            \/ /\ sw' = [pc |-> "loop", queries |-> Val(state.search_queries), qi |-> 1,
                         all_results |-> <<>>, log |-> <<>>]
               /\ UNCHANGED <<task, updates>>
    /\ UNCHANGED <<state, active, run, result, collection, index, seed, calls, kb_results,
                   item, hit, callers>>

\* a loop that a failed request ends
SearchWebQuery_Break ==
    /\ task["search_web"] = "running"
    /\ sw.pc = "loop"
    /\ sw.qi <= Len(sw.queries)
    /\ \E resp \in Responses :
          sw' = [sw EXCEPT !.qi = IF resp = Absent THEN Len(sw.queries) + 1 ELSE @ + 1,
                           !.log = Append(@, [q |-> sw.queries[sw.qi], resp |-> resp]),
                           !.all_results =
                               IF resp = Absent THEN @
                               ELSE @ \o [j \in 1..Len(Val(resp)) |->
                                             MakeResult(sw.queries[sw.qi], Val(resp)[j])]]
    /\ calls' = [calls EXCEPT !.search = @ + 1]
    /\ UNCHANGED <<state, task, updates, active, run, result, collection, index, seed,
                   kb_results, item, hit, callers>>

\* one turn of the loop over the queries: the request, and the results of its items;
\* log keeps the requests made and what the provider answered
SearchWebQuery ==
    /\ task["search_web"] = "running"
    /\ sw.pc = "loop"
    /\ sw.qi <= Len(sw.queries)
    /\ \E resp \in Responses :
          sw' = [sw EXCEPT !.qi = @ + 1,
                           !.log = Append(@, [q |-> sw.queries[sw.qi], resp |-> resp]),
                           !.all_results =
                               IF resp = Absent THEN @
                               ELSE @ \o [j \in 1..Len(Val(resp)) |->
                                             MakeResult(sw.queries[sw.qi], Val(resp)[j])]]
    /\ calls' = [calls EXCEPT !.search = @ + 1]
    /\ UNCHANGED <<state, task, updates, active, run, result, collection, index, seed,
                   kb_results, item, hit, callers>>

\* a search_web that also returns an empty kb_matches
SearchWebFinish_AlsoMatches ==
    /\ task["search_web"] = "running"
    /\ sw.pc = "loop"
    /\ sw.qi > Len(sw.queries)
    /\ sw' = [sw EXCEPT !.pc = "done"]
    /\ Finish("search_web",
              Returned([EmptyState EXCEPT !.search_results =
                           Some(SelectDiverse(SortByRelevance(sw.all_results), <<>>)),
                                         !.kb_matches = Some(<<>>)]))
    /\ UNCHANGED <<state, active, run, result, collection, index, seed, calls, kb_results,
                   item, hit, callers>>

\* after the loop: the sort, the selection, the return
SearchWebFinish ==
    /\ task["search_web"] = "running"
    /\ sw.pc = "loop"
    /\ sw.qi > Len(sw.queries)
    /\ sw' = [sw EXCEPT !.pc = "done"]
    /\ Finish("search_web",
              Returned([EmptyState EXCEPT !.search_results =
                           Some(SelectDiverse(SortByRelevance(sw.all_results), <<>>))]))
    /\ UNCHANGED <<state, active, run, result, collection, index, seed, calls, kb_results,
                   item, hit, callers>>

SearchWeb == SearchWebBegin \/ SearchWebQuery \/ SearchWebFinish

MaxQueries == 4

QueryName(i) == <<"q", Render(i)>>

\* the lists of search queries a state may hold
QueryLists == {[i \in 1..n |-> QueryName(i)] : n \in 0..MaxQueries}

InitSearch ==
    /\ NodeIdle
    /\ state \in {[EmptyState EXCEPT !.search_queries = q] :
                    q \in {Absent} \cup {Some(l) : l \in QueryLists}}
    /\ collection = "None"
    /\ index = <<>>
    /\ seed = Absent

NextSearch == CallNode("search_web") \/ SearchWeb

SpecSearch == InitSearch /\ [][NextSearch]_vars

(***************************************************************************)
(* parse_profile and generate_queries.                                     *)
(***************************************************************************)
RawProfiles == {"", "Senior Software Engineer at Google"}

\* parse_profile(state): the structured profile the model extracts, or an error of
\* the call
ParseProfile ==
    /\ task["parse_profile"] = "running"
    /\ IF Get(state, "raw_profile", "") = ""
       THEN /\ Finish("parse_profile", Raised)
            /\ UNCHANGED calls
       ELSE /\ calls' = [calls EXCEPT !.llm = @ + 1]
            /\ \/ Finish("parse_profile", Raised)
               \/ \E p \in Profiles :
                     Finish("parse_profile", Returned([EmptyState EXCEPT !.profile = Some(p)]))
    /\ UNCHANGED <<state, active, run, result, sw, collection, index, seed, kb_results,
                   item, hit, callers>>

\* max_length of SearchQueries.queries (query_generator.py:17)
MaxGenerated == 5

\* max_search_queries (utils/config.py:31)
MaxSearchQueries == 5

MaxModelQueries == 1

\* the lists of queries the model answers with: min_length 1
GeneratedLists ==
    {[i \in 1..n |-> QueryName(i)] :
        n \in 1..(IF MaxModelQueries < MaxGenerated THEN MaxModelQueries ELSE MaxGenerated)}

\* result.queries[:config.max_search_queries]
LimitQueries(q) == SubSeq(q, 1, IF Len(q) < MaxSearchQueries THEN Len(q) ELSE MaxSearchQueries)

\* generate_queries(state)
GenerateQueries ==
    /\ task["generate_queries"] = "running"
    /\ IF state.profile = Absent
       THEN /\ Finish("generate_queries", Raised)
            /\ UNCHANGED calls
       ELSE /\ calls' = [calls EXCEPT !.llm = @ + 1]
            /\ \/ Finish("generate_queries", Raised)
               \/ \E q \in GeneratedLists :
                     Finish("generate_queries",
                            Returned([EmptyState EXCEPT !.search_queries = Some(LimitQueries(q))]))
    /\ UNCHANGED <<state, active, run, result, sw, collection, index, seed, kb_results,
                   item, hit, callers>>

(***************************************************************************)
(* analyze_salary (salary_analyzer.py:107-200).                            *)
(***************************************************************************)
SalaryValues == {100000, 200000}

\* the SalaryAnalysis objects the model answers with; confidence_score in thousandths
Analyses ==
    [ salary_min : SalaryValues, salary_max : SalaryValues, salary_median : SalaryValues,
      confidence_score : {850}, confidence_level : {"high"},
      reasoning : {"Based on benchmarks."},
      adjustments : {<<>>, <<"+15% for SF location">>} ]

RECURSIVE SumMentions(_)
SumMentions(hits) ==
    IF hits = <<>> THEN 0
    ELSE Cardinality(Head(hits).salary_mentions) + SumMentions(Tail(hits))

\* a count in which a figure counts once however many hits mention it
CountDataPoints_Distinct(st) ==
    Len(Get(st, "kb_matches", <<>>))
      + Cardinality(UNION {Get(st, "search_results", <<>>)[i].salary_mentions :
                              i \in 1..Len(Get(st, "search_results", <<>>))})

\* _count_data_points(state)
CountDataPoints(st) ==
    Len(Get(st, "kb_matches", <<>>)) + SumMentions(Get(st, "search_results", <<>>))

RECURSIVE FirstSeen(_)
\* the distinct elements of q, each at its first place
FirstSeen(q) ==
    IF q = <<>> THEN <<>>
    ELSE LET d == FirstSeen(SubSeq(q, 1, Len(q) - 1))
         IN  IF \E i \in 1..Len(d) : d[i] = q[Len(q)] THEN d ELSE Append(d, q[Len(q)])

\* list(set(r.source for r in search_results)): the order of a set is not fixed;
\* two of its orders are explored
SourceOrders(st) ==
    LET hits == Get(st, "search_results", <<>>)
        d == FirstSeen([i \in 1..Len(hits) |-> hits[i].source])
    IN  {d, Reverse(d)}

InternalKb == <<"i", "n", "t", "e", "r", "n", "a", "l", "_", "k", "b">>

MaxSearchSources == 5

\* a sources list that takes every source domain
Sources_Untruncated(st, order) ==
    (IF Get(st, "kb_matches", <<>>) # <<>> THEN <<InternalKb>> ELSE <<>>) \o order

\* the sources list, for one order of the set of source domains
Sources(st, order) ==
    (IF Get(st, "kb_matches", <<>>) # <<>> THEN <<InternalKb>> ELSE <<>>)
      \o SubSeq(order, 1, IF Len(order) < MaxSearchSources THEN Len(order) ELSE MaxSearchSources)

\* SalaryRange(currency="USD", min=..., max=..., median=...): no validator
SalaryRange(a) ==
    [currency |-> "USD", min |-> a.salary_min, max |-> a.salary_max, median |-> a.salary_median]

\* EstimationResult(...).model_dump()
EstimationResult(st, a, order) ==
    [ profile_summary |->
          [ title |-> Val(st.profile).title, company |-> Val(st.profile).company,
            years_of_experience |-> Val(st.profile).years_of_experience,
            location |-> Val(st.profile).location ],
      salary_estimate |-> SalaryRange(a),
      confidence |-> [ score |-> a.confidence_score, level |-> a.confidence_level,
                       data_points |-> CountDataPoints(st), factors |-> a.adjustments ],
      reasoning |-> a.reasoning,
      sources |-> Sources(st, order),
      adjustments |-> a.adjustments ]

\* a dict that also returns the profile, with another number of years in it
AnalysisUpdate_WritesProfile(st, a, order) ==
    [EmptyState EXCEPT !.salary_estimate = Some(SalaryRange(a)),
                       !.confidence_score = Some(a.confidence_score),
                       !.reasoning = Some(a.reasoning),
                       !.sources = Some(Sources(st, order)),
                       !.adjustments = Some(a.adjustments),
                       !.final_response = Some(EstimationResult(st, a, order)),
                       !.profile = Some([Val(st.profile) EXCEPT !.years_of_experience = 0])]

\* the dict analyze_salary returns
AnalysisUpdate(st, a, order) ==
    [EmptyState EXCEPT !.salary_estimate = Some(SalaryRange(a)),
                       !.confidence_score = Some(a.confidence_score),
                       !.reasoning = Some(a.reasoning),
                       !.sources = Some(Sources(st, order)),
                       !.adjustments = Some(a.adjustments),
                       !.final_response = Some(EstimationResult(st, a, order))]

\* an analyze_salary that returns nothing when there is no profile
AnalyzeOutcomes_NoRaise(st) ==
    IF st.profile = Absent THEN {[outcome |-> Returned(EmptyState), llm |-> 0]}
    ELSE {[outcome |-> Raised, llm |-> 1]}
           \cup {[outcome |-> Returned(AnalysisUpdate(st, a, order)), llm |-> 1] :
                    a \in Analyses, order \in SourceOrders(st)}

\* what analyze_salary(st) may come to, with the calls of the model it makes
AnalyzeOutcomes(st) ==
    IF st.profile = Absent THEN {[outcome |-> Raised, llm |-> 0]}
    ELSE {[outcome |-> Raised, llm |-> 1]}
           \cup {[outcome |-> Returned(AnalysisUpdate(st, a, order)), llm |-> 1] :
                    a \in Analyses, order \in SourceOrders(st)}

\* analyze_salary(state)
AnalyzeSalary ==
    /\ task["analyze_salary"] = "running"
    /\ \E o \in AnalyzeOutcomes(state) :
          /\ Finish("analyze_salary", o.outcome)
          /\ calls' = [calls EXCEPT !.llm = @ + o.llm]
    /\ UNCHANGED <<state, active, run, result, sw, collection, index, seed, kb_results,
                   item, hit, callers>>

\* the raw items of the hits a state given to analyze_salary holds
ItemR(i, j) ==
    [ title |-> T_Salary,
      snippet |-> <<"$", "1", "0">> \o Render(i) \o <<"k", " ", "-", " ", "$", "1", "0">>
                    \o Render(j) \o <<"k">>,
      link |-> L_glassdoor ]

AnalyzeItems == {ItemL, ItemG(1), ItemR(1, 2), ItemR(3, 4), ItemD(2)}

MaxHits == 3

\* a list of hits from seven domains, as search_web returns for two queries
ManyDomains == [i \in 1..7 |-> MakeResult(QueryName(1), ItemD(i))]

HitLists ==
    SeqsUpTo({MakeResult(QueryName(1), it) : it \in AnalyzeItems}, MaxHits) \cup {ManyDomains}

MatchLists ==
    {<<>>, <<Benchmark(M_junior)>>, <<Benchmark(M_junior), Benchmark(M_senior)>>}

InitAnalyze ==
    /\ NodeIdle
    /\ state \in {[EmptyState EXCEPT !.profile = p, !.kb_matches = k, !.search_results = h] :
                    p \in {Absent, Some(ProfileOf(3))},
                    k \in {Absent} \cup {Some(l) : l \in MatchLists},
                    h \in {Absent} \cup {Some(l) : l \in HitLists}}
    /\ collection = "None"
    /\ index = <<>>
    /\ seed = Absent

NextAnalyze == CallNode("analyze_salary") \/ AnalyzeSalary

SpecAnalyze == InitAnalyze /\ [][NextAnalyze]_vars

(***************************************************************************)
(* The pipeline (graph.py): the graph of build_graph, run by invoke in     *)
(* supersteps; the nodes of a superstep run concurrently, and their        *)
(* updates are applied when all of them have returned.                     *)
(***************************************************************************)
\* a graph in which analyze_salary follows generate_queries and lookup_kb
Edges_AnalyzeEarly ==
    { <<"START", "parse_profile">>,
      <<"parse_profile", "generate_queries">>,
      <<"generate_queries", "search_web">>,
      <<"generate_queries", "lookup_kb">>,
      <<"generate_queries", "analyze_salary">>,
      <<"lookup_kb", "analyze_salary">>,
      <<"analyze_salary", "END">> }

\* a graph in which lookup_kb follows parse_profile
Edges_LookupEarly ==
    { <<"START", "parse_profile">>,
      <<"parse_profile", "generate_queries">>,
      <<"generate_queries", "search_web">>,
      <<"parse_profile", "lookup_kb">>,
      <<"search_web", "analyze_salary">>,
      <<"lookup_kb", "analyze_salary">>,
      <<"analyze_salary", "END">> }

\* a graph in which lookup_kb follows search_web
Edges_Sequential ==
    { <<"START", "parse_profile">>,
      <<"parse_profile", "generate_queries">>,
      <<"generate_queries", "search_web">>,
      <<"search_web", "lookup_kb">>,
      <<"lookup_kb", "analyze_salary">>,
      <<"analyze_salary", "END">> }

\* the add_edge calls of build_graph
Edges ==
    { <<"START", "parse_profile">>,
      <<"parse_profile", "generate_queries">>,
      <<"generate_queries", "search_web">>,
      <<"generate_queries", "lookup_kb">>,
      <<"search_web", "analyze_salary">>,
      <<"lookup_kb", "analyze_salary">>,
      <<"analyze_salary", "END">> }

\* the nodes an edge leads to from a node of S
Succ(S) == {m \in Nodes : \E n \in S : <<n, m>> \in Edges}

\* the state with the updates of the nodes of S applied, each key replaced whole
Apply(st, S, upds) ==
    [f \in Fields |->
        IF \E n \in S : upds[n].upd[f] # Absent
        THEN upds[CHOOSE n \in S : upds[n].upd[f] # Absent].upd[f]
        ELSE st[f]]

\* estimate_salary(profile_text) up to the first superstep
Invoke ==
    /\ run = "idle"
    /\ \A n \in Nodes : task[n] = "idle"
    /\ \E raw \in RawProfiles : state' = [EmptyState EXCEPT !.raw_profile = Some(raw)]
    /\ run' = "running"
    /\ active' = Succ({"START"})
    /\ UNCHANGED <<task, updates, result, sw, collection, index, seed, calls, kb_results,
                   item, hit, callers>>

\* a node of the superstep starts to run
StartTask(n) ==
    /\ run = "running"
    /\ n \in active
    /\ task[n] = "idle"
    /\ \A m \in active : task[m] # "failed"
    /\ task' = [task EXCEPT ![n] = "running"]
    /\ UNCHANGED <<state, updates, active, run, result, sw, collection, index, seed, calls,
                   kb_results, item, hit, callers>>

\* an executor that goes on to the next superstep when a node of the superstep raised
EndSuperstep_IgnoreFailure ==
    /\ run = "running"
    /\ active # {}
    /\ \A n \in active : task[n] \in {"done", "failed"}
    /\ state' = Apply(state, active, updates)
    /\ active' = Succ(active)
    /\ task' = [n \in Nodes |-> IF n \in Succ(active) THEN "idle" ELSE task[n]]
    /\ IF Succ(active) = {}
       THEN /\ run' = "done"
            /\ result' = Some(Apply(state, active, updates).final_response)
       ELSE UNCHANGED <<run, result>>
    /\ UNCHANGED <<updates, sw, collection, index, seed, calls, kb_results, item, hit, callers>>

\* all nodes of the superstep have returned: their updates are applied and the nodes
\* their edges lead to make the next superstep; with none left invoke returns, and
\* estimate_salary returns final_state.get("final_response", {}), the {} as Absent
EndSuperstep ==
    /\ run = "running"
    /\ active # {}
    /\ \A n \in active : task[n] = "done"
    /\ state' = Apply(state, active, updates)
    /\ active' = Succ(active)
    /\ task' = [n \in Nodes |-> IF n \in Succ(active) THEN "idle" ELSE task[n]]
    /\ IF Succ(active) = {}
       THEN /\ run' = "done"
            /\ result' = Some(Apply(state, active, updates).final_response)
       ELSE UNCHANGED <<run, result>>
    /\ UNCHANGED <<updates, sw, collection, index, seed, calls, kb_results, item, hit, callers>>

\* a node of the superstep raised: invoke raises, and so does estimate_salary
Abort ==
    /\ run = "running"
    /\ \E n \in active : task[n] = "failed"
    /\ run' = "failed"
    /\ UNCHANGED <<state, task, updates, active, result, sw, collection, index, seed, calls,
                   kb_results, item, hit, callers>>

\* the stores a run starts on
PipelineStores == {<<M_junior, M_senior, M_open>>, <<M_senior, M_broken>>}

PipelineSeeds == {<<M_junior, M_senior>>}

Init ==
    /\ NodeIdle
    /\ state = EmptyState
    /\ collection = "None"
    /\ \/ /\ index = <<>>
          /\ seed \in {Absent} \cup {Some(f) : f \in PipelineSeeds}
       \/ /\ index \in PipelineStores
          /\ seed = Absent

Next ==
    \/ CallInitKnowledgeBase
    \/ Invoke
    \/ \E n \in Nodes : StartTask(n)
    \/ ParseProfile
    \/ GenerateQueries
    \/ SearchWeb
    \/ LookupKnowledgeBase
    \/ AnalyzeSalary
    \/ EndSuperstep
    \/ Abort

Spec == Init /\ [][Next]_vars

(***************************************************************************)
(* Calls of search_web and of analyze_salary on states that lack fields.   *)
(***************************************************************************)
\* states with a profile in which each list field is missing, empty or filled
PartialStates ==
    {[EmptyState EXCEPT !.profile = Some(ProfileOf(3)), !.search_queries = q,
                        !.kb_matches = k, !.search_results = h] :
        q \in {Absent, Some(<<>>), Some(<<QueryName(1)>>)},
        k \in {Absent, Some(<<>>), Some(<<Benchmark(M_junior)>>)},
        h \in {Absent, Some(<<>>), Some(<<MakeResult(QueryName(1), ItemL)>>)}}

InitNodes ==
    /\ NodeIdle
    /\ state \in PartialStates
    /\ collection = "None"
    /\ index = <<>>
    /\ seed = Absent

NextNodes ==
    \/ CallNode("search_web")
    \/ SearchWeb
    \/ CallNode("analyze_salary")
    \/ AnalyzeSalary

SpecNodes == InitNodes /\ [][NextNodes]_vars


(***************************************************************************)
(* Processing one raw item (the body of search_web's loop over items).     *)
(***************************************************************************)
Idle ==
    /\ state = <<>>
    /\ task = <<>>
    /\ updates = <<>>
    /\ active = {}
    /\ run = "idle"
    /\ result = Absent
    /\ sw = SwIdle
    /\ collection = "None"
    /\ index = <<>>
    /\ seed = Absent
    /\ calls = <<>>
    /\ kb_results = <<>>
    /\ callers = <<>>

InitItem ==
    /\ Idle
    /\ item \in Items
    /\ hit = Absent

ProcessItem ==
    /\ hit = Absent
    /\ hit' = Some(MakeResult("q", item))
    /\ UNCHANGED <<state, task, updates, active, run, result, sw, collection, index,
                   seed, calls, kb_results, item, callers>>

NextItem == ProcessItem

SpecItem == InitItem /\ [][NextItem]_vars

(***************************************************************************)
(* Properties of the extraction of figures (SpecItem).                     *)
(***************************************************************************)
\* C6: every salary figure stored in the salary_mentions of a SearchResult lies in
\* the band [30000, 2000000]; a parsed number outside it is never stored.
C6_FiguresInBand ==
    hit # Absent => \A f \in Val(hit).salary_mentions : 30000 <= f /\ f <= 2000000

\* a range "$2000000 - $2000001 per year" was processed: the first figure is stored,
\* the second, one past the band, is not
C6_Witness ==
    /\ hit # Absent
    /\ item.snippet \in RangeSnippets(Render(2000000), Render(2000001))
    /\ Val(hit).salary_mentions = {2000000}

\* the value a figure written with a k suffix stands for
KValue(a) == IF a < 1000 THEN a * 1000 ELSE a

\* C7: a figure written with a k suffix is extracted as the figure written in full:
\* below 1000 it is multiplied by 1000, from 1000 on it is left unchanged (so "150k"
\* and "150000" both give 150000), in every context in which figures are written.
C7_KSuffixSameAsPlain ==
    (hit # Absent /\ item.title = <<>>) =>
        \A a \in Amounts : \A c \in FigureContexts : \A d \in Renderings(a) :
            /\ item.snippet = InContext(c, d \o <<"k">>) =>
                   Val(hit).salary_mentions = {v \in {KValue(a)} : 30000 <= v /\ v <= 2000000}
            /\ item.snippet = InContext(c, d) =>
                   Val(hit).salary_mentions = {v \in {a} : 30000 <= v /\ v <= 2000000}

(***************************************************************************)
(* Properties of lookup_knowledge_base (SpecKB).                           *)
(***************************************************************************)
\* lookup_knowledge_base was called with a profile and returned
LookupReturned == state.profile # Absent /\ updates["lookup_kb"].kind = "return"

\* the kb_matches it returned
Matches == Val(updates["lookup_kb"].upd.kb_matches)

\* the experience range of an index record, 0 to 30 where the record stores none
RangeMin(m) == IF m.years_of_experience_min = Absent THEN 0 ELSE Val(m.years_of_experience_min)

RangeMax(m) == IF m.years_of_experience_max = Absent THEN 30 ELSE Val(m.years_of_experience_max)

\* yoe lies in the range widened by two years at both ends, ends included
InSlackBand(yoe, lo, hi) == lo - 2 <= yoe /\ yoe <= hi + 2

\* the records of the index's answer that lie in the band of the profile, in the
\* index's order
BandRecords ==
    SelectSeq(kb_results,
              LAMBDA m : InSlackBand(Val(state.profile).years_of_experience, RangeMin(m), RangeMax(m)))

\* benchmark b is the record m of the index
IsRecord(b, m) ==
    /\ b.role = m.role
    /\ b.years_of_experience_min = RangeMin(m)
    /\ b.years_of_experience_max = RangeMax(m)
    /\ Some(b.salary_median) = m.salary_median

\* C3: every benchmark in the result of lookup_knowledge_base lies in the band
\* experience_min - 2 <= years_of_experience <= experience_max + 2, each of the first
\* five index records in the band is in the result, and no record outside the band is.
C3_ExperienceBand ==
    LookupReturned =>
        /\ \A i \in 1..Len(Matches) :
               InSlackBand(Val(state.profile).years_of_experience,
                           Matches[i].years_of_experience_min, Matches[i].years_of_experience_max)
        /\ \A j \in 1..Len(BandRecords) :
               j <= 5 => \E i \in 1..Len(Matches) : IsRecord(Matches[i], BandRecords[j])
        /\ \A j \in 1..Len(kb_results) :
               ~InSlackBand(Val(state.profile).years_of_experience,
                            RangeMin(kb_results[j]), RangeMax(kb_results[j]))
                 => \A i \in 1..Len(Matches) : ~IsRecord(Matches[i], kb_results[j])

\* a profile with 12 years met a 5-10 record (the upper end of the band, included)
\* and a 0-2 record (outside it): the first is returned, the second is not
C3_Witness ==
    /\ LookupReturned
    /\ Val(state.profile).years_of_experience = 12
    /\ kb_results = <<M_junior, M_senior>>
    /\ Len(Matches) = 1
    /\ Matches[1].role = "Senior Software Engineer"

\* C4: lookup_knowledge_base returns at most 5 records: the first 5 (or fewer) index
\* records that pass the experience filter, in the order the index returned them.
C4_FirstFiveInOrder ==
    LookupReturned =>
        /\ Len(Matches) <= 5
        /\ Len(Matches) = (IF Len(BandRecords) < 5 THEN Len(BandRecords) ELSE 5)
        /\ \A i \in 1..Len(Matches) : IsRecord(Matches[i], BandRecords[i])

\* six records passed the filter, the sixth of another kind than the first: five are
\* returned, in the index's order
C4_Witness ==
    /\ LookupReturned
    /\ Len(BandRecords) = 6
    /\ BandRecords[1] = M_senior
    /\ BandRecords[2] = M_open
    /\ BandRecords[6] = M_junior
    /\ Len(Matches) = 5
    /\ Matches[1].role = "Senior Software Engineer"

\* C5: called without a profile, lookup_knowledge_base returns an empty kb_matches and
\* does nothing to the similarity index: no open, no count, no population, no query.
C5_NoProfileNoIndexUse ==
    [][(task["lookup_kb"] = "running" /\ task'["lookup_kb"] # "running" /\ state.profile = Absent)
         => /\ updates'["lookup_kb"] = Returned([EmptyState EXCEPT !.kb_matches = Some(<<>>)])
            /\ calls' = calls
            /\ collection' = collection
            /\ index' = index]_vars

\* the lookup has returned for a state without profile, with the collection never
\* opened and a seed file at hand
C5_Witness ==
    /\ state.profile = Absent
    /\ task["lookup_kb"] = "done"
    /\ seed # Absent
    /\ collection = "None"
    /\ calls = NoCalls

(***************************************************************************)
(* Properties of search_web (SpecSearch).                                  *)
(***************************************************************************)
\* the hits search_web returned
Hits == Val(updates["search_web"].upd.search_results)

\* the hits in the order the selection visits them
Candidates == SortByRelevance(sw.all_results)

\* C8: search_web returns at most 15 hits; the first 5 entries are taken as they
\* come, whatever their source domain; from the 6th entry on, the source domain of
\* an entry differs from the source domain of every earlier entry of the list.
C8_CapAndDiversity ==
    updates["search_web"].kind = "return" =>
        /\ Len(Hits) <= 15
        /\ \A i \in 1..Len(Hits) :
              IF i <= 5
              THEN sw.pc = "done" => Hits[i] = Candidates[i]
              ELSE \A j \in 1..(i - 1) : Hits[i].source # Hits[j].source

\* a call with more than 15 candidates that returned 15 hits, two of the first 5
\* from one domain
C8_Witness ==
    /\ updates["search_web"].kind = "return"
    /\ Len(sw.all_results) > 15
    /\ Len(Hits) = 15
    /\ \E i, j \in 1..5 : i < j /\ Hits[i].source = Hits[j].source
    /\ \E i \in 1..Len(Candidates) : \A j \in 1..15 : Candidates[i].source # Hits[j].source


(***************************************************************************)
(* Properties of analyze_salary (SpecAnalyze).                             *)
(***************************************************************************)
\* the call of analyze_salary has ended
AnalyzeEnded == task["analyze_salary"] \in {"done", "failed"}

AnalyzeUpdate == updates["analyze_salary"].upd

\* the final response of a call that returned
Estimate == Val(AnalyzeUpdate.final_response)

\* C2: analyze_salary entered with no profile in the state raises, without a call
\* of the inference service, and writes no final_response and no salary_estimate.
C2_NoProfileFailsBeforeInference ==
    (state.profile = Absent /\ AnalyzeEnded) =>
        /\ task["analyze_salary"] = "failed"
        /\ updates["analyze_salary"].kind = "raise"
        /\ calls.llm = 0
        /\ AnalyzeUpdate.final_response = Absent
        /\ AnalyzeUpdate.salary_estimate = Absent

\* a call that failed on a state with matches and hits and no profile
C2_Witness ==
    /\ state.profile = Absent
    /\ task["analyze_salary"] = "failed"
    /\ Get(state, "kb_matches", <<>>) # <<>>
    /\ Get(state, "search_results", <<>>) # <<>>

\* C9: the salary range of every final response has min <= median <= max,
\* whatever salary_min, salary_max and salary_median the inference service returns.
C9_RangeOrdered ==
    updates["analyze_salary"].kind = "return" =>
        /\ Estimate.salary_estimate.min <= Estimate.salary_estimate.median
        /\ Estimate.salary_estimate.median <= Estimate.salary_estimate.max

StateMatches == Get(state, "kb_matches", <<>>)

StateHits == Get(state, "search_results", <<>>)

\* the figures found in the hits of the state, each once
DistinctFigures == UNION {StateHits[i].salary_mentions : i \in 1..Len(StateHits)}

\* the figures found in the hits of the state, each once for every hit it is in
FiguresByHit ==
    {p \in (1..Len(StateHits)) \X DistinctFigures : p[2] \in StateHits[p[1]].salary_mentions}

\* C10 as stated: the data-point count is the number of benchmark matches plus the
\* number of distinct figures across all hits, a figure in two hits counting once.
C10_CountsDistinctFigures ==
    updates["analyze_salary"].kind = "return" =>
        Estimate.confidence.data_points = Len(StateMatches) + Cardinality(DistinctFigures)

\* C10: the data-point count is the number of benchmark matches plus, summed over
\* the hits, the number of distinct figures of each hit, so a figure that appears in
\* two hits counts twice; with 0 matches and 3 hits whose 5 figures are all
\* different the count is 5.
C10_CountsFiguresPerHit ==
    updates["analyze_salary"].kind = "return" =>
        /\ Estimate.confidence.data_points = Len(StateMatches) + Cardinality(FiguresByHit)
        /\ (/\ StateMatches = <<>>
            /\ Len(StateHits) = 3
            /\ Cardinality(DistinctFigures) = 5
            /\ Cardinality(FiguresByHit) = 5) => Estimate.confidence.data_points = 5

\* a response for a state with a match and a figure that two hits mention
C10_Witness ==
    /\ updates["analyze_salary"].kind = "return"
    /\ StateMatches # <<>>
    /\ \E i, j \in 1..Len(StateHits) :
          /\ i < j
          /\ StateHits[i] # StateHits[j]
          /\ StateHits[i].salary_mentions \cap StateHits[j].salary_mentions # {}
    /\ Estimate.confidence.data_points > Len(StateMatches) + Cardinality(DistinctFigures)


(***************************************************************************)
(* Properties of the pipeline (Spec).                                      *)
(***************************************************************************)
Started(n) == task[n] # "idle"

Completed(n) == task[n] = "done"

\* C1: in every run parse_profile has completed when generate_queries starts,
\* generate_queries has completed when search_web or lookup_kb starts, and both
\* search_web and lookup_kb have completed when analyze_salary starts, whichever of
\* the two completes first.
C1_DependencyOrder ==
    /\ Started("generate_queries") => Completed("parse_profile")
    /\ (Started("search_web") \/ Started("lookup_kb")) => Completed("generate_queries")
    /\ Started("analyze_salary") => (Completed("search_web") /\ Completed("lookup_kb"))
    /\ (Completed("search_web") /\ ~Completed("lookup_kb")) => ~Started("analyze_salary")
    /\ (Completed("lookup_kb") /\ ~Completed("search_web")) => ~Started("analyze_salary")

\* a run in which analyze_salary has started, on a state that holds what search_web
\* and lookup_kb returned
C1_Witness ==
    /\ run = "running"
    /\ task["analyze_salary"] = "running"
    /\ state.search_results = updates["search_web"].upd.search_results
    /\ state.kb_matches = updates["lookup_kb"].upd.kb_matches
    /\ Get(state, "search_results", <<>>) # <<>>
    /\ Get(state, "kb_matches", <<>>) # <<>>


\* the source domains of the hits of the state
HitDomains == {StateHits[i].source : i \in 1..Len(StateHits)}

\* the sources of the final response behind the internal-kb tag, if it has one
SearchSources ==
    IF StateMatches # <<>> THEN Tail(Estimate.sources) ELSE Estimate.sources

\* C11: the sources list of the final response starts with the internal-kb tag if
\* and only if there is a benchmark match; then come at most 5 source domains, each
\* distinct and each the source domain of a hit; with 1 match and no hit the list is
\* the tag alone, with no match and hits from 2 domains it is those 2 domains.
C11_SourcesList ==
    updates["analyze_salary"].kind = "return" =>
        /\ StateMatches # <<>> => (Estimate.sources # <<>> /\ Head(Estimate.sources) = InternalKb)
        /\ \A i \in 1..Len(SearchSources) :
              /\ SearchSources[i] # InternalKb
              /\ SearchSources[i] \in HitDomains
              /\ \A j \in 1..Len(SearchSources) : SearchSources[i] = SearchSources[j] => i = j
        /\ Len(SearchSources) <= 5
        /\ Cardinality(HitDomains) <= 5 => Len(SearchSources) = Cardinality(HitDomains)
        /\ (Len(StateMatches) = 1 /\ StateHits = <<>>) => Estimate.sources = <<InternalKb>>
        /\ (StateMatches = <<>> /\ Cardinality(HitDomains) = 2) =>
              (/\ Len(Estimate.sources) = 2
               /\ {Estimate.sources[i] : i \in 1..2} = HitDomains)

\* a response for a state with a match and hits from more than 5 domains
C11_Witness ==
    /\ updates["analyze_salary"].kind = "return"
    /\ StateMatches # <<>>
    /\ Cardinality(HitDomains) > 5
    /\ Len(Estimate.sources) = 6


(***************************************************************************)
(* Properties of the relevance score (SpecItem).                           *)
(***************************************************************************)
\* w when b holds, else 0
Boost(b, w) == IF b THEN w ELSE 0

\* text t has one of the words ws in it, whatever the case of its letters
Mentions(t, ws) == \E w \in ws : Contains(LowerText(t), w)

\* the snippet has a currency sign with a digit or a comma behind it
HasAmount(snippet) ==
    \E i \in 1..(Len(snippet) - 1) : snippet[i] = "$" /\ snippet[i + 1] \in Digit \cup {","}

\* 0.5 + 0.2*[trusted] + 0.15*[keyword] + 0.1*[year] + 0.05*[amount], summed from
\* the left in floating point, in thousandths
ClaimedScore(it) ==
    FloatAdd(FloatAdd(FloatAdd(FloatAdd(500,
        Boost(Mentions(NetLoc(LowerText(it.link)), TrustedDomains), 200)),
        Boost(Mentions(it.title, SalaryKeywords) \/ Mentions(it.snippet, SalaryKeywords), 150)),
        Boost(Mentions(it.snippet, RecentYears), 100)),
        Boost(HasAmount(it.snippet), 50))

\* C12: the relevance score of a hit is min(1.0, 0.5 + 0.2*[domain is trusted]
\* + 0.15*[salary keyword in title or snippet] + 0.1*[recent year in snippet]
\* + 0.05*[currency amount in snippet]); it lies in [0.5, 1.0]; and the hit with the
\* snippet "Total comp $180,000 - $220,000 per year, 2024" and no title has the
\* figures {180000, 220000} and both the keyword and the recent-year boost.
C12_RelevanceScore ==
    hit # Absent =>
        /\ Val(hit).relevance_score
              = (IF ClaimedScore(item) < 1000 THEN ClaimedScore(item) ELSE 1000)
        /\ Val(hit).relevance_score >= 500
        /\ Val(hit).relevance_score <= 1000
        /\ (item.snippet = ExampleSnippet /\ item.title = <<>>) =>
              /\ Val(hit).salary_mentions = {180000, 220000}
              /\ Val(hit).relevance_score
                    = 500 + Boost(Val(hit).source \in {NetLoc(L_glassdoor), NetLoc(L_levels)}, 200)
                          + 150 + 100 + 50

\* the hit of the example snippet, found at a domain that is not trusted
C12_Witness ==
    /\ hit # Absent
    /\ item.snippet = ExampleSnippet
    /\ item.title = <<>>
    /\ item.link = L_blog
    /\ Val(hit).relevance_score = 800


\* the stages that depend on stage n
Dependents(n) ==
    CASE n = "parse_profile" -> {"generate_queries", "search_web", "lookup_kb", "analyze_salary"}
      [] n = "generate_queries" -> {"search_web", "lookup_kb", "analyze_salary"}
      [] n = "search_web" -> {"analyze_salary"}
      [] n = "lookup_kb" -> {"analyze_salary"}
      [] n = "analyze_salary" -> {}

\* C13: a stage that raises aborts the run: after a failure of a stage no stage that
\* depends on it executes, the failed stage is not run again, and estimate_salary
\* returns nothing to its caller.
C13_FailureAborts ==
    /\ [](\A n \in Nodes : task[n] = "failed" =>
              /\ \A m \in Dependents(n) : task[m] = "idle"
              /\ run # "done"
              /\ result = Absent)
    /\ [][\A n \in Nodes : task[n] = "failed" =>
              /\ task'[n] = "failed"
              /\ updates'[n] = updates[n]
              /\ state' = state]_vars

\* a run aborted by a failure of lookup_kb, search_web having returned
C13_Witness ==
    /\ run = "failed"
    /\ task["lookup_kb"] = "failed"
    /\ task["search_web"] = "done"
    /\ task["analyze_salary"] = "idle"
    /\ result = Absent


\* the fields an update writes
Written(upd) == {f \in Fields : upd[f] # Absent}

\* C14: the state analyze_salary reads holds the search_results search_web returned
\* and the kb_matches lookup_kb returned, each whole, whichever of the two returned
\* first; the two write disjoint fields and neither overwrites the other's.
C14_JoinedState ==
    Started("analyze_salary") =>
        /\ state.search_results # Absent
        /\ state.search_results = updates["search_web"].upd.search_results
        /\ state.kb_matches # Absent
        /\ state.kb_matches = updates["lookup_kb"].upd.kb_matches
        /\ Written(updates["search_web"].upd) = {"search_results"}
        /\ Written(updates["lookup_kb"].upd) = {"kb_matches"}

\* analyze_salary runs on a state with the hits of search_web and the matches of
\* lookup_kb, both lists non-empty
C14_Witness ==
    /\ task["analyze_salary"] = "running"
    /\ Len(Get(state, "search_results", <<>>)) >= 2
    /\ Len(Get(state, "kb_matches", <<>>)) >= 2
    /\ state.search_results = updates["search_web"].upd.search_results
    /\ state.kb_matches = updates["lookup_kb"].upd.kb_matches


\* the requests of the call that the provider failed
FailedRequests == {i \in 1..Len(sw.log) : sw.log[i].resp = Absent}

\* the candidates found for the i-th query
CandidatesOf(i) == SelectSeq(sw.all_results, LAMBDA r : r.query = sw.queries[i])

\* C15: a failure of the provider for a query is not fatal to search_web: the query
\* contributes no hit, every other query is still issued, in order, the items of
\* every query that succeeded are all candidates, and when every query fails the
\* stage returns an empty list.
C15_ProviderFailureTolerated ==
    /\ task["search_web"] # "failed"
    /\ sw.pc \in {"loop", "done"} =>
          /\ Len(sw.log) = sw.qi - 1
          /\ \A i \in 1..Len(sw.log) :
                /\ sw.log[i].q = sw.queries[i]
                /\ IF i \in FailedRequests
                   THEN CandidatesOf(i) = <<>>
                   ELSE /\ Len(CandidatesOf(i)) = Len(Val(sw.log[i].resp))
                        /\ \A j \in 1..Len(Val(sw.log[i].resp)) :
                              /\ CandidatesOf(i)[j].title = Val(sw.log[i].resp)[j].title
                              /\ CandidatesOf(i)[j].snippet = Val(sw.log[i].resp)[j].snippet
    /\ sw.pc = "done" =>
          /\ Len(sw.log) = Len(sw.queries)
          /\ updates["search_web"].kind = "return"
          /\ FailedRequests = 1..Len(sw.queries) => Hits = <<>>

\* a call of three queries or more whose second request failed and whose third
\* brought hits
C15_Witness ==
    /\ sw.pc = "done"
    /\ Len(sw.queries) >= 3
    /\ 2 \in FailedRequests
    /\ 3 \notin FailedRequests
    /\ CandidatesOf(3) # <<>>
    /\ \E i \in 1..Len(Hits) : Hits[i].query = sw.queries[3]


(***************************************************************************)
(* Properties of concurrent first use of the knowledge base (SpecRace).    *)
(***************************************************************************)
\* C16: when callers of init_knowledge_base or of lookup_knowledge_base on an empty
\* index run at the same time, the seed records are added to the index by only one
\* of them and the index is opened only once in the process.
C16_SeededOnce ==
    /\ calls.add <= 1
    /\ calls.open <= 1


(***************************************************************************)
(* Records of the index that lack Benchmark fields (SpecKB).               *)
(***************************************************************************)
\* the records in the band that hold every salary field of a Benchmark
WellFormedBandRecords ==
    SelectSeq(BandRecords,
              LAMBDA m : m.salary_min # Absent /\ m.salary_median # Absent /\ m.salary_max # Absent)

\* C17: when the index returns a record that lacks Benchmark fields,
\* lookup_knowledge_base skips it and returns the well-formed records that pass the
\* experience filter; the record is not fatal to the stage.
C17_MalformedRecordSkipped ==
    (state.profile # Absent /\ calls.query > 0 /\ task["lookup_kb"] \in {"done", "failed"}) =>
        /\ task["lookup_kb"] = "done"
        /\ updates["lookup_kb"].kind = "return"
        /\ Len(Matches) = (IF Len(WellFormedBandRecords) < 5 THEN Len(WellFormedBandRecords) ELSE 5)
        /\ \A i \in 1..Len(Matches) : IsRecord(Matches[i], WellFormedBandRecords[i])


(***************************************************************************)
(* The order of the hits search_web returns (SpecSearch).                  *)
(***************************************************************************)
\* the place at which hit r was discovered
Discovered(r) == CHOOSE i \in 1..Len(sw.all_results) : sw.all_results[i] = r

\* r comes before s in the order by score descending, ties in order of discovery
Before(r, s) ==
    \/ r.relevance_score > s.relevance_score
    \/ r.relevance_score = s.relevance_score /\ Discovered(r) < Discovered(s)

\* C18: the candidates are ordered by relevance score descending, hits of equal score
\* in the order they were discovered; the returned list is non-increasing in score
\* and a subsequence of that ordering.
C18_StableDescendingOrder ==
    sw.pc = "done" =>
        /\ \A k \in 1..Len(Hits) : \E i \in 1..Len(sw.all_results) : sw.all_results[i] = Hits[k]
        /\ \A k, l \in 1..Len(Hits) :
              k < l => /\ Hits[k].relevance_score >= Hits[l].relevance_score
                       /\ Before(Hits[k], Hits[l])

\* a returned list with two hits of one score from two queries, and with a hit that
\* was discovered after a hit of lower score
C18_Witness ==
    /\ sw.pc = "done"
    /\ \E k, l \in 1..Len(Hits) :
          /\ k < l
          /\ Hits[k].relevance_score = Hits[l].relevance_score
          /\ Hits[k].query # Hits[l].query
    /\ \E k, l \in 1..Len(Hits) :
          /\ k < l
          /\ Hits[k].relevance_score > Hits[l].relevance_score
          /\ Discovered(Hits[k]) > Discovered(Hits[l])


(***************************************************************************)
(* The recent-year boost (SpecItem).                                       *)
(***************************************************************************)
\* the calendar years a run may take place in
RunYears == {2025, 2026}

\* the score of the item's trust, keyword and amount boosts, the year boost left out
ScoreWithoutYear(it) ==
    FloatAdd(FloatAdd(FloatAdd(500,
        Boost(Mentions(NetLoc(LowerText(it.link)), TrustedDomains), 200)),
        Boost(Mentions(it.title, SalaryKeywords) \/ Mentions(it.snippet, SalaryKeywords), 150)),
        Boost(HasAmount(it.snippet), 50))

\* the hit's score has the year boost in it
YearBoosted == Val(hit).relevance_score # ScoreWithoutYear(item)

\* C19: the recent-year boost is given exactly when the snippet mentions the calendar
\* year of the run or the year before it, whatever year the run takes place in.
C19_BoostForCurrentOrPreviousYear ==
    hit # Absent =>
        \A y \in RunYears :
            YearBoosted <=> Mentions(item.snippet, {Render(y), Render(y - 1)})


(***************************************************************************)
(* Fields that no stage has written (SpecNodes).                           *)
(***************************************************************************)
\* the state with an empty list in each list field that is missing
Filled(st) ==
    [st EXCEPT !.search_queries = Some(Get(st, "search_queries", <<>>)),
               !.kb_matches = Some(Get(st, "kb_matches", <<>>)),
               !.search_results = Some(Get(st, "search_results", <<>>))]

\* what search_web returns for an empty list of queries
EmptySearch == Returned([EmptyState EXCEPT !.search_results = Some(<<>>)])

\* the updates analyze_salary may return on state st
AnalysisUpdates(st) ==
    {AnalysisUpdate(st, a, order) : a \in Analyses, order \in SourceOrders(st)}

SearchEnded == task["search_web"] \in {"done", "failed"}

\* C20 as stated: a stage that reads a field no stage has written gets an explicit
\* absent value and behaves otherwise than on an empty list: search_web on a missing
\* search_queries, analyze_salary on a missing kb_matches or search_results.
C20_AbsentDistinguished ==
    /\ (SearchEnded /\ state.search_queries = Some(<<>>)) => updates["search_web"] = EmptySearch
    /\ (SearchEnded /\ state.search_queries = Absent) => updates["search_web"] # EmptySearch
    /\ (updates["analyze_salary"].kind = "return"
          /\ (state.kb_matches = Absent \/ state.search_results = Absent)) =>
          AnalyzeUpdate \notin AnalysisUpdates(Filled(state))

\* C20: a stage that reads a list field no stage has written gets the empty list as
\* default and behaves as on an empty list: search_web on a missing search_queries
\* returns an empty search_results without a request, as on an empty list, and with
\* kb_matches or search_results missing analyze_salary returns what it may return
\* with empty lists in their place (no data point, no source for a missing field).
C20_AbsentReadAsEmpty ==
    /\ (SearchEnded /\ Get(state, "search_queries", <<>>) = <<>>) =>
          (updates["search_web"] = EmptySearch /\ calls.search = 0)
    /\ updates["analyze_salary"].kind = "return" =>
          /\ AnalyzeUpdate \in AnalysisUpdates(Filled(state))
          /\ (state.kb_matches \in {Absent, Some(<<>>)}
                /\ state.search_results \in {Absent, Some(<<>>)}) =>
                (Estimate.confidence.data_points = 0 /\ Estimate.sources = <<>>)

\* search_web has returned an empty list on a state without search_queries
C20_Witness ==
    /\ state.search_queries = Absent
    /\ task["search_web"] = "done"
    /\ updates["search_web"] = EmptySearch
    /\ calls.search = 0


(***************************************************************************)
(* The fields each stage writes (Spec).                                    *)
(***************************************************************************)
\* the fields of stage n
Owns(n) ==
    CASE n = "parse_profile" -> {"profile"}
      [] n = "generate_queries" -> {"search_queries"}
      [] n = "search_web" -> {"search_results"}
      [] n = "lookup_kb" -> {"kb_matches"}
      [] n = "analyze_salary" ->
            {"salary_estimate", "confidence_score", "reasoning", "sources", "adjustments",
             "final_response"}

\* C21: each stage writes its own fields and no other: parse_profile the profile,
\* generate_queries the search_queries, search_web the search_results, lookup_kb the
\* kb_matches, analyze_salary the estimate fields; a field changes only when a stage
\* that owns it has returned, and the raw input and the profile, once written, never
\* change.
C21_StagesWriteOwnFields ==
    /\ [](\A n \in Nodes : updates[n].kind = "return" => Written(updates[n].upd) = Owns(n))
    /\ [][\A f \in Fields :
              /\ state[f] # Absent => state'[f] = state[f]
              /\ (state'[f] # state[f] /\ f # "raw_profile") =>
                    \E n \in active : f \in Owns(n) /\ state'[f] = updates[n].upd[f]]_vars

\* a run that ended with every field written, the profile as parse_profile returned it
C21_Witness ==
    /\ run = "done"
    /\ \A f \in Fields : state[f] # Absent
    /\ state.profile = updates["parse_profile"].upd.profile
    /\ Get(state, "kb_matches", <<>>) # <<>>
    /\ Get(state, "search_results", <<>>) # <<>>


\* C22: in a run no stage executes more than once, analyze_salary included; a run
\* that ends without a failure has produced the response once, by analyze_salary,
\* returns it, and nothing of the run happens after that.
C22_SinglePass ==
    /\ [](run = "done" =>
              /\ \A n \in Nodes : task[n] = "done"
              /\ active = {}
              /\ state.final_response # Absent
              /\ state.final_response = updates["analyze_salary"].upd.final_response
              /\ result = Some(state.final_response))
    /\ [][/\ \A n \in Nodes : task[n] \in {"done", "failed"} => task'[n] = task[n]
          /\ \A n \in Nodes : updates[n] # NoReturn => updates'[n] = updates[n]
          /\ run = "done" => (run' = "done" /\ state' = state /\ result' = result)]_vars

\* a run that ended: every stage has run, the response is returned
C22_Witness ==
    /\ run = "done"
    /\ \A n \in Nodes : task[n] = "done"
    /\ result # Absent
    /\ Val(result) # Absent
    /\ Val(Val(result)).confidence.data_points > 0


(***************************************************************************)
(* What search_web and lookup_kb can see of each other (Spec)              *)
(***************************************************************************)
\* the candidates that the provider's answers give, request by request
RECURSIVE LogResults(_)
LogResults(log) ==
    IF log = <<>> THEN <<>>
    ELSE LET e == log[Len(log)]
         IN  LogResults(SubSeq(log, 1, Len(log) - 1)) \o
                 (IF e.resp = Absent THEN <<>>
                  ELSE [j \in 1..Len(Val(e.resp)) |-> MakeResult(e.q, Val(e.resp)[j])])

\* what search_web holds and returns; what lookup_kb returns and the store it uses
SearchSide == <<sw, task["search_web"], updates["search_web"], calls.search>>

LookupSide ==
    <<task["lookup_kb"], updates["lookup_kb"], kb_results, collection, index,
      calls.open, calls.count, calls.add, calls.query>>

\* C23: search_web and lookup_kb do not observe each other's writes. While either
\* runs, the state holds what parse_profile and generate_queries returned and neither
\* search_results nor kb_matches; search_web's queries are those generate_queries
\* returned and its result is a function of them and of the provider's answers;
\* lookup_kb's result is a function of the profile and of the index's answer; a step
\* of one stage leaves what the other holds and returns as it is.
C23_NoCrossObservation ==
    /\ []((task["search_web"] = "running" \/ task["lookup_kb"] = "running") =>
              /\ state.search_results = Absent
              /\ state.kb_matches = Absent
              /\ state.search_queries = updates["generate_queries"].upd.search_queries
              /\ state.profile = updates["parse_profile"].upd.profile)
    /\ [](sw.pc # "idle" =>
              /\ sw.queries = Val(updates["generate_queries"].upd.search_queries)
              /\ \A i \in 1..Len(sw.log) : sw.log[i].q = sw.queries[i])
    /\ [](sw.pc = "done" => Hits = SelectDiverse(SortByRelevance(LogResults(sw.log)), <<>>))
    /\ []((updates["lookup_kb"].kind = "return" /\ calls.query > 0) =>
              /\ kb_results \in {QueryResult(r) : r \in Rankings(index)}
              /\ updates["lookup_kb"] =
                     FilterMatches(Val(updates["parse_profile"].upd.profile).years_of_experience,
                                   kb_results))
    /\ [][/\ SearchSide' # SearchSide => LookupSide' = LookupSide
          /\ LookupSide' # LookupSide => SearchSide' = SearchSide]_vars

\* both stages have returned what they found and the superstep has not ended
C23_Witness ==
    /\ sw.pc = "done"
    /\ Hits # <<>>
    /\ updates["lookup_kb"].kind = "return"
    /\ Matches # <<>>
    /\ active = {"search_web", "lookup_kb"}


(***************************************************************************)
(* Population of the store from the seed file (SpecKB)                     *)
(***************************************************************************)
\* C24: population is idempotent and precedes the first query. A call that finds
\* records in the index adds nothing and leaves the index as it is; records are
\* added only to an empty index, and are those of the seed file; a lookup that
\* finds the index empty and a seed file to load has loaded it when it issues the
\* query, and the query is answered from the index as populated; so over any
\* sequence of calls records are added at most once.
C24_PopulationIdempotent ==
    /\ [][index # <<>> => (index' = index /\ calls'.add = calls.add)]_vars
    /\ [][calls'.add # calls.add =>
              (index = <<>> /\ seed # Absent /\ index' = Val(seed))]_vars
    /\ [][calls'.query # calls.query =>
              /\ kb_results' \in {QueryResult(r) : r \in Rankings(index')}
              /\ (index = <<>> /\ seed # Absent) =>
                    (index' = Val(seed) /\ calls'.add = calls.add + 1)]_vars
    /\ [](calls.add <= 1)

\* a lookup populated the empty index and queried it, and a call of
\* init_knowledge_base after it counted the records and added none
C24_Witness ==
    /\ calls.init = 1
    /\ calls.add = 1
    /\ calls.query = 1
    /\ calls.count = 4
    /\ index = Val(seed)
    /\ LookupReturned
    /\ Matches # <<>>


(***************************************************************************)
(* Source domains kept by the selection of search_web (SpecSearch)         *)
(***************************************************************************)
\* the source domains of a list of hits
DomainsOf(hits) == {hits[i].source : i \in 1..Len(hits)}

\* the hits the selection has taken when it visits the i-th candidate
TakenBefore(i) == SelectDiverse(SubSeq(Candidates, 1, i - 1), <<>>)

\* C25: the selection never drops a source domain while there is room. A candidate
\* that is visited with fewer than 15 hits taken and is not taken has the source
\* domain of a hit taken before it; so when search_web returns fewer than 15 hits,
\* every source domain among the candidates is the source domain of a returned hit.
C25_NoDomainDropped ==
    sw.pc = "done" =>
        /\ \A i \in 1..Len(Candidates) :
              (Len(TakenBefore(i)) < 15 /\ TakenBefore(i + 1) = TakenBefore(i)) =>
                  Candidates[i].source \in DomainsOf(TakenBefore(i))
        /\ Len(Hits) < 15 => DomainsOf(sw.all_results) = DomainsOf(Hits)

\* a call that returned fewer than 15 hits and fewer hits than it had candidates, of
\* more than 5 source domains
C25_Witness ==
    /\ sw.pc = "done"
    /\ Len(Hits) < 15
    /\ Len(Hits) < Len(sw.all_results)
    /\ Cardinality(DomainsOf(sw.all_results)) > 5
    /\ DomainsOf(Hits) = DomainsOf(sw.all_results)

====
